---------------------------- MODULE Spec2Model ----------------------------
(***************************************************************************)
(* A model of the PDF toolkit's core: the page-selection grammar           *)
(* (page_selection.py), the split engine (splitter.py) and the merge       *)
(* engine (merger.py).  Strings are sequences of one-character strings.    *)
(***************************************************************************)
EXTENDS Integers, Sequences, FiniteSets, TLC

(***************************************************************************)
(* Bounds of the model.                                                    *)
(***************************************************************************)
MaxSelLen == 5

MaxPages == 2

(***************************************************************************)
(* Strings.                                                                *)
(***************************************************************************)
Digits == <<"0", "1", "2", "3", "4", "5", "6", "7", "8", "9">>

IsDigit(c) == \E i \in 1..10 : Digits[i] = c

DigitVal(c) == (CHOOSE i \in 1..10 : Digits[i] = c) - 1

WhiteSpace == {" "}

\* str.strip(): drop leading and trailing whitespace
RECURSIVE LStrip(_)
LStrip(s) ==
    IF s # <<>> /\ Head(s) \in WhiteSpace THEN LStrip(Tail(s)) ELSE s

RECURSIVE RStrip(_)
RStrip(s) ==
    IF s # <<>> /\ s[Len(s)] \in WhiteSpace
    THEN RStrip(SubSeq(s, 1, Len(s) - 1))
    ELSE s

Strip(s) == RStrip(LStrip(s))

\* "c in s"
Contains(s, c) == \E i \in 1..Len(s) : s[i] = c

\* index of the first occurrence of c in s (0 when absent)
Find(s, c) ==
    IF Contains(s, c)
    THEN CHOOSE i \in 1..Len(s) : s[i] = c /\ \A j \in 1..(i - 1) : s[j] # c
    ELSE 0

\* s.split(c): the pieces between occurrences of c; never an empty list
RECURSIVE Split(_, _)
Split(s, c) ==
    LET i == Find(s, c)
    IN  IF i = 0
        THEN <<s>>
        ELSE <<SubSeq(s, 1, i - 1)>> \o Split(SubSeq(s, i + 1, Len(s)), c)

\* s.split(c, 1): at most one cut, at the first occurrence of c
Split1(s, c) ==
    LET i == Find(s, c)
    IN  IF i = 0
        THEN <<s>>
        ELSE <<SubSeq(s, 1, i - 1), SubSeq(s, i + 1, Len(s))>>

\* the digits of an int() literal after its sign: digits, single underscores
\* only between digits
RECURSIVE DigitRun(_, _)
DigitRun(s, acc) ==
    IF s = <<>> THEN [ok |-> TRUE, val |-> acc]
    ELSE IF IsDigit(Head(s)) THEN DigitRun(Tail(s), 10 * acc + DigitVal(Head(s)))
    ELSE IF Head(s) = "_" /\ Len(s) >= 2 /\ IsDigit(s[2])
         THEN DigitRun(Tail(s), acc)
    ELSE [ok |-> FALSE, val |-> 0]

\* int(s): surrounding whitespace ignored, optional sign, decimal digits;
\* ok = FALSE stands for ValueError
IntParse(s) ==
    LET t == Strip(s)
        signed == t # <<>> /\ Head(t) \in {"+", "-"}
        body == IF signed THEN Tail(t) ELSE t
        run == IF body # <<>> /\ IsDigit(Head(body))
               THEN DigitRun(body, 0)
               ELSE [ok |-> FALSE, val |-> 0]
    IN  IF ~run.ok THEN [ok |-> FALSE, val |-> 0]
        ELSE IF signed /\ Head(t) = "-" THEN [ok |-> TRUE, val |-> 0 - run.val]
        ELSE [ok |-> TRUE, val |-> run.val]

\* mutant of Range: range(a, b), the end left out
RECURSIVE RangeExclusive(_, _)
RangeExclusive(a, b) == IF a >= b THEN <<>> ELSE <<a>> \o RangeExclusive(a + 1, b)

\* mutant of Range: range(a, b + 2), one number past the end
RECURSIVE RangeOneMore(_, _)
RangeOneMore(a, b) == IF a > b + 1 THEN <<>> ELSE <<a>> \o RangeOneMore(a + 1, b)

\* range(a, b + 1) as a list
RECURSIVE Range(_, _)
Range(a, b) == IF a > b THEN <<>> ELSE <<a>> \o Range(a + 1, b)

(***************************************************************************)
(* page_selection.py                                                       *)
(***************************************************************************)
Returned(pages) == [ok |-> TRUE, pages |-> pages, msg |-> "", part |-> <<>>]

Raised(msg, part) == [ok |-> FALSE, pages |-> <<>>, msg |-> msg, part |-> part]

\* one iteration of the loop over selection.split(","), from parts[i] on,
\* with the pages collected so far
RECURSIVE ParseLoop(_, _, _, _)
ParseLoop(parts, i, pages, total_pages) ==
    IF i > Len(parts) THEN Returned(pages)
    ELSE
      LET part == Strip(parts[i])
      IN  IF part = <<>> THEN ParseLoop(parts, i + 1, pages, total_pages)
          ELSE IF Contains(part, "-")
          THEN LET se == Split1(part, "-")
                   start == IntParse(se[1])
                   end == IntParse(se[2])
               IN  IF ~(start.ok /\ end.ok)
                   THEN Raised("Invalid range: ", part)
                   ELSE IF ~(1 <= start.val /\ start.val <= end.val
                               /\ end.val <= total_pages)
                   THEN Raised("Page range out of bounds: ", part)
                   ELSE ParseLoop(parts, i + 1,
                                  pages \o Range(start.val, end.val), total_pages)
          ELSE LET page == IntParse(part)
               IN  IF ~page.ok
                   THEN Raised("Invalid page number: ", part)
                   ELSE IF ~(1 <= page.val /\ page.val <= total_pages)
                   THEN Raised("Page out of bounds: ", part)
                   ELSE ParseLoop(parts, i + 1, Append(pages, page.val), total_pages)

\* mutant of parse_page_selection: the upper bound checked one page too far
parse_page_selection_loose(selection, total_pages) ==
    ParseLoop(Split(selection, ","), 1, <<>>, total_pages + 1)

parse_page_selection(selection, total_pages) ==
    ParseLoop(Split(selection, ","), 1, <<>>, total_pages)

(***************************************************************************)
(* Paths and file names.                                                   *)
(***************************************************************************)
PdfExt == <<".", "p", "d", "f">>

\* os.path.basename: what follows the last separator
Basename(path) ==
    LET seps == {i \in 1..Len(path) : path[i] = "/"}
    IN  IF seps = {} THEN path
        ELSE SubSeq(path, (CHOOSE i \in seps : \A j \in seps : i >= j) + 1, Len(path))

\* os.path.splitext(name)[0]: the name up to its last dot, unless that dot
\* only follows dots
SplitextRoot(name) ==
    LET dots == {i \in 1..Len(name) : name[i] = "."}
        last == CHOOSE i \in dots : \A j \in dots : i >= j
    IN  IF dots = {} THEN name
        ELSE IF \A j \in 1..(last - 1) : name[j] = "." THEN name
        ELSE SubSeq(name, 1, last - 1)

\* os.path.join(dir, name)
JoinPath(dir, name) ==
    IF dir # <<>> /\ dir[Len(dir)] = "/" THEN dir \o name ELSE dir \o <<"/">> \o name

\* str(n) for n >= 0
RECURSIVE Dec(_)
Dec(n) == IF n < 10 THEN <<Digits[n + 1]>> ELSE Dec(n \div 10) \o <<Digits[(n % 10) + 1]>>

\* f"{n:0{w}d}": at least w digits, zeros in front
RECURSIVE ZeroPad(_, _)
ZeroPad(digits, w) == IF Len(digits) >= w THEN digits ELSE ZeroPad(<<"0">> \o digits, w)

\* mutant of PageFileName: the page number not padded
PageFileNameBare(base, idx) == base \o <<"_", "p">> \o Dec(idx) \o PdfExt

\* f"{base}_p{idx:03d}.pdf"
PageFileName(base, idx) == base \o <<"_", "p">> \o ZeroPad(Dec(idx), 3) \o PdfExt

\* f"{base}_sel{idx:02d}.pdf"
SelFileName(base, idx) == base \o <<"_", "s", "e", "l">> \o ZeroPad(Dec(idx), 2) \o PdfExt

\* mutant of StrippedNonEmpty: the "if x.strip()" filter left out
StrippedKeepsEmpty(s) ==
    LET pieces == Split(s, ";")
    IN  [i \in 1..Len(pieces) |-> Strip(pieces[i])]

\* [x.strip() for x in s.split(";") if x.strip()]
StrippedNonEmpty(s) ==
    LET pieces == Split(s, ";")
        stripped == [i \in 1..Len(pieces) |-> Strip(pieces[i])]
    IN  SelectSeq(stripped, LAMBDA x : x # <<>>)

(***************************************************************************)
(* State.                                                                  *)
(***************************************************************************)
VARIABLES
    selection,      \* parse_page_selection: the selection argument
    total_pages,    \* parse_page_selection: the total_pages argument
    parsed,         \* parse_page_selection: what the call returned or raised
    call,           \* the engine call: the operation and its arguments
    world,          \* the PDF files that exist: path -> kind and page count
    pc,             \* where the running engine call stands
    reader,         \* the PdfReader the call holds
    groups,         \* split_chosen_pages: the groups of pages_spec
    paths,          \* merge: the source paths
    idx,            \* the loop index (1-based)
    writer,         \* merge: the pages added to the PdfWriter so far
    disk,           \* the output files: path -> pages, complete or not
    dirs,           \* the directories os.makedirs created
    trace,          \* what the call did, in order: callbacks, errors, I/O
    queue,          \* ui: the button events waiting in the event queue
    prev,           \* ui: the call that ran before this one, and how it ended
    clicks          \* ui: how many times a button was pressed so far

parseVars == <<selection, total_pages, parsed>>

uiVars == <<queue, prev, clicks>>

engineVars == <<call, world, pc, reader, groups, paths, idx, writer, disk, dirs, trace>>

vars == <<selection, total_pages, parsed,
          call, world, pc, reader, groups, paths, idx, writer, disk, dirs, trace,
          queue, prev, clicks>>

NoCall == [op |-> "none", pdf_path |-> <<>>, out_dir |-> <<>>, pages_spec |-> <<>>,
           paths_str |-> <<>>, out_path |-> <<>>]

NoReader == [path |-> <<>>, pages |-> <<>>]

\* no call has run yet in this session of the application
NoPrev == [call |-> NoCall, trace |-> <<>>, disk |-> <<>>]

Ev(e, x) == [e |-> e, x |-> x]

\* human_error(msg)
ErrorEv(msg) == Ev("error", msg)

StatusEv(text) == Ev("status", text)

ProgressEv(current, total) == Ev("progress", <<current, total>>)

\* mutant of Unexpected: the error reported and the status left as it was
UnexpectedNoClear(what) == <<ErrorEv(<<what>>)>>

\* mutant of Unexpected: the status cleared and no error reported
UnexpectedSilent(what) == <<StatusEv(<<>>)>>

\* the except clause at the end of each operation
Unexpected(what) == <<ErrorEv(<<what>>), StatusEv(<<>>)>>

SplitFailed == "An unexpected error occurred while splitting."

MergeFailed == "An unexpected error occurred while merging."

\* an output file as written by PdfWriter.write
File(pages) == [pages |-> pages, complete |-> TRUE]

\* what an interrupted write may leave behind
Torn == [pages |-> <<>>, complete |-> FALSE]

\* mutant of WriteFile: the file opened with "ab", the pages added to what is there
WriteFileAppending(d, out_path, pages) ==
    (out_path :> File((IF out_path \in DOMAIN d THEN d[out_path].pages ELSE <<>>) \o pages))
        @@ d

\* with open(out_path, "wb") as f: writer.write(f)
WriteFile(d, out_path, pages) == (out_path :> File(pages)) @@ d

\* os.path.isfile
IsFile(path) == path \in DOMAIN world

Encrypted(path) == world[path].kind \in {"enc_ok", "enc_zero", "enc_raise"}

\* reader.pages of the document at path: its pages, each known by its place
PagesOf(path) == [k \in 1..world[path].pages |-> <<path, k>>]

\* mutant of DecryptFails: an exception raised by decrypt is let pass
DecryptFailsOnZeroOnly(path) == world[path].kind = "enc_zero"

\* reader.decrypt("") returned 0 or raised
DecryptFails(path) == world[path].kind \in {"enc_zero", "enc_raise"}

\* mutant of IsEmptyDocument: the check left out
IsEmptyDocumentNever(n) == FALSE

\* total_pages == 0
IsEmptyDocument(n) == n = 0

\* mutant of ParseErrorText: a fixed text in place of the parser's
ParseErrorTextFixed(e) == <<"Invalid page selection.">>

\* str(e) of the ValueError parse_page_selection raised
ParseErrorText(e) == <<e.msg, e.part>>

\* mutant of NotFoundText: the path left out
NotFoundTextBare(path) == <<"File not found.">>

\* f"File not found: {path}"
NotFoundText(path) == <<"File not found: ", path>>

\* mutant of AddPages: the pages put in front
AddPagesInFront(w, pages) == pages \o w

\* for page in reader.pages: writer.add_page(page)
AddPages(w, pages) == w \o pages

EngineIdle ==
    /\ call = NoCall
    /\ world = <<>>
    /\ pc = "done"
    /\ reader = NoReader
    /\ groups = <<>>
    /\ paths = <<>>
    /\ idx = 0
    /\ writer = <<>>
    /\ disk = <<>>
    /\ dirs = {}
    /\ trace = <<>>
    /\ queue = <<>>
    /\ prev = NoPrev
    /\ clicks = 0

(***************************************************************************)
(* The parser alone: every selection string up to MaxSelLen characters.    *)
(***************************************************************************)
SelChars == {"0", "1", "2", "-", ",", " ", "x"}

Strings(chars, n) == UNION {[1..k -> chars] : k \in 0..n}

Pending == [ok |-> FALSE, pages |-> <<>>, msg |-> "pending", part |-> <<>>]

\* the selections the specification quotes, with their totals
Ex_2_46_1 == <<"2", ",", "4", "-", "6", ",", "1">>

Ex_0 == <<"0">>

Ex_3_2 == <<"3", "-", "2">>

Ex_5_9 == <<"5", "-", "9">>

QuotedCalls == {<<Ex_2_46_1, 10>>, <<Ex_0, 5>>, <<Ex_3_2, 5>>, <<Ex_5_9, 5>>}

InitParse ==
    /\ \/ /\ selection \in Strings(SelChars, MaxSelLen)
          /\ total_pages \in 0..MaxPages
       \/ \E c \in QuotedCalls : selection = c[1] /\ total_pages = c[2]
    /\ parsed = Pending
    /\ EngineIdle

ParseCall ==
    /\ parsed = Pending
    /\ parsed' = parse_page_selection(selection, total_pages)
    /\ UNCHANGED <<selection, total_pages>>
    /\ UNCHANGED <<engineVars, uiVars>>

NextParse == ParseCall

SpecParse == InitParse /\ [][NextParse]_vars

(***************************************************************************)
(* The grammar of section 4.1, stated over the characters of a selection:  *)
(* what the claims about parse_page_selection compare the code with.       *)
(***************************************************************************)
\* the places that bound an item of a list written with separator sep:
\* before the string, each separator, after the string
Cuts(sel, sep) == {0, Len(sel) + 1} \cup {i \in 1..Len(sel) : sel[i] = sep}

\* the text between the n-th cut and the next one
Piece(sel, sep, n) ==
    LET cs == Cuts(sel, sep)
        lo == CHOOSE c \in cs : Cardinality({d \in cs : d < c}) = n - 1
        hi == CHOOSE c \in cs : Cardinality({d \in cs : d < c}) = n
    IN  SubSeq(sel, lo + 1, hi - 1)

\* a piece without the blanks around it
Trimmed(t) ==
    LET ink == {i \in 1..Len(t) : t[i] \notin WhiteSpace}
    IN  IF ink = {} THEN <<>>
        ELSE SubSeq(t, CHOOSE i \in ink : \A j \in ink : i <= j,
                       CHOOSE i \in ink : \A j \in ink : i >= j)

\* the non-empty items of a list written with separator sep, in the order
\* written, without the blanks around them
Items(sel, sep) ==
    LET all == [n \in 1..(Cardinality(Cuts(sel, sep)) - 1) |->
                   Trimmed(Piece(sel, sep, n))]
    IN  SelectSeq(all, LAMBDA t : t # <<>>)

\* the non-empty tokens of a selection
Tokens(sel) == Items(sel, ",")

IsRangeToken(t) == \E i \in 1..Len(t) : t[i] = "-"

\* A and B of a range token A-B: the text before and after its first dash
RangeA(t) ==
    LET d == CHOOSE i \in 1..Len(t) : t[i] = "-" /\ \A j \in 1..(i - 1) : t[j] # "-"
    IN  IntParse(SubSeq(t, 1, d - 1))

RangeB(t) ==
    LET d == CHOOSE i \in 1..Len(t) : t[i] = "-" /\ \A j \in 1..(i - 1) : t[j] # "-"
    IN  IntParse(SubSeq(t, d + 1, Len(t)))

ValidToken(t, total) ==
    IF IsRangeToken(t)
    THEN LET A == RangeA(t)
             B == RangeB(t)
         IN  A.ok /\ B.ok /\ 1 <= A.val /\ A.val <= B.val /\ B.val <= total
    ELSE LET n == IntParse(t)
         IN  n.ok /\ 1 <= n.val /\ n.val <= total

\* what a valid token stands for
Expansion(t) ==
    IF IsRangeToken(t)
    THEN LET A == RangeA(t).val
             B == RangeB(t).val
         IN  [i \in 1..(B - A + 1) |-> A + i - 1]
    ELSE <<IntParse(t).val>>

RECURSIVE Flatten(_)
Flatten(seqs) == IF seqs = <<>> THEN <<>> ELSE Head(seqs) \o Flatten(Tail(seqs))

ExpectedPages(sel) ==
    LET ts == Tokens(sel) IN Flatten([i \in 1..Len(ts) |-> Expansion(ts[i])])

AllValid(sel, total) ==
    LET ts == Tokens(sel) IN \A i \in 1..Len(ts) : ValidToken(ts[i], total)

\* the leftmost invalid token of a selection that has one
FirstInvalid(sel, total) ==
    LET ts == Tokens(sel)
        k == CHOOSE i \in 1..Len(ts) :
                 /\ ~ValidToken(ts[i], total)
                 /\ \A j \in 1..(i - 1) : ValidToken(ts[j], total)
    IN  ts[k]

InvalidRange == {"Invalid range: ", "Page range out of bounds: "}

InvalidPageNumber == {"Invalid page number: ", "Page out of bounds: "}

(***************************************************************************)
(* C1: when every non-empty token of the selection is valid for            *)
(* total_pages, parse_page_selection returns the expansions of the tokens  *)
(* concatenated in token order (A..B ascending for a range A-B, N for a    *)
(* singleton), unsorted, duplicates kept, empty tokens adding nothing.     *)
(***************************************************************************)
C1_TokenOrderExpansion ==
    (parsed # Pending /\ AllValid(selection, total_pages))
        => /\ parsed.ok
           /\ parsed.pages = ExpectedPages(selection)
           /\ (<<selection, total_pages>> = <<Ex_2_46_1, 10>>
                  => parsed.pages = <<2, 4, 5, 6, 1>>)

\* a returned list that is out of numeric order, repeats a page, and comes
\* from a selection with a range token and an empty token
C1_Witness ==
    /\ parsed # Pending /\ parsed.ok
    /\ AllValid(selection, total_pages)
    /\ \E i \in 1..Len(Tokens(selection)) : IsRangeToken(Tokens(selection)[i])
    /\ \E i, j \in 1..Len(parsed.pages) : i < j /\ parsed.pages[i] > parsed.pages[j]
    /\ \E i, j \in 1..Len(parsed.pages) : i < j /\ parsed.pages[i] = parsed.pages[j]

(***************************************************************************)
(* C2: parse_page_selection fails, returning no list, exactly when some    *)
(* non-empty token is invalid; the error is an InvalidRange one when the   *)
(* leftmost invalid token is a range token and an InvalidPageNumber one    *)
(* when it is a singleton, and it names that token.                        *)
(***************************************************************************)
C2_FailsOnLeftmostInvalid ==
    parsed # Pending =>
        /\ ~parsed.ok <=> ~AllValid(selection, total_pages)
        /\ ~parsed.ok =>
              LET t == FirstInvalid(selection, total_pages)
              IN  /\ parsed.pages = <<>>
                  /\ parsed.part = t
                  /\ IsRangeToken(t) => parsed.msg \in InvalidRange
                  /\ ~IsRangeToken(t) => parsed.msg \in InvalidPageNumber
        /\ <<selection, total_pages>> = <<Ex_0, 5>>
              => ~parsed.ok /\ parsed.msg \in InvalidPageNumber
        /\ <<selection, total_pages>> \in {<<Ex_3_2, 5>>, <<Ex_5_9, 5>>}
              => ~parsed.ok /\ parsed.msg \in InvalidRange

\* a failure on a range token that follows a valid token
C2_Witness ==
    /\ parsed # Pending /\ ~parsed.ok
    /\ parsed.msg \in InvalidRange
    /\ Len(Tokens(selection)) >= 2
    /\ ValidToken(Tokens(selection)[1], total_pages)
    /\ parsed.part = Tokens(selection)[2]

(***************************************************************************)
(* The calls and the worlds the engines are run on.                        *)
(***************************************************************************)
MaxGroups == 3

MaxSources == 3

PathA == <<"d", "/", "a", ".", "p", "d", "f">>

PathB == <<"b", ".", "p", "d", "f">>

\* a path no file is at
PathM == <<"m", ".", "p", "d", "f">>

OutDir == <<"o">>

OutFile == <<"o", ".", "p", "d", "f">>

DocKinds == {"plain", "enc_ok", "enc_zero", "enc_raise", "corrupt"}

\* a document the call never opens is held to this one
PlainEmpty == [kind |-> "plain", pages |-> 0]

DocStates ==
    {d \in [kind : DocKinds, pages : 0..MaxPages] : d.kind = "corrupt" => d.pages = 0}

GroupChoices ==
    {<<"1">>, <<"2", ",", "1">>, <<"1", "-", "2">>, <<" ">>, <<",">>, <<"x">>}

EntryChoices == {PathA, <<" ">> \o PathB, PathM, <<>>}

\* ";".join(items)
RECURSIVE JoinSemi(_)
JoinSemi(items) ==
    IF items = <<>> THEN <<>>
    ELSE IF Len(items) = 1 THEN items[1]
    ELSE items[1] \o <<";">> \o JoinSemi(Tail(items))

Lists(S, n) == UNION {[1..k -> S] : k \in 0..n}

SplitCalls ==
    {[NoCall EXCEPT !.op = "split", !.pdf_path = i, !.out_dir = o] :
        i \in {<<>>, PathA, PathM}, o \in {<<>>, OutDir}}

ChosenCalls ==
    {[NoCall EXCEPT !.op = "chosen", !.pdf_path = i, !.out_dir = o,
                    !.pages_spec = JoinSemi(g)] :
        i \in {<<>>, PathA, PathM}, o \in {<<>>, OutDir},
        g \in Lists(GroupChoices, MaxGroups)}

MergeCalls ==
    {[NoCall EXCEPT !.op = "merge", !.paths_str = JoinSemi(e), !.out_path = o] :
        e \in Lists(EntryChoices, MaxSources), o \in {<<>>, OutFile}}

\* the documents a call gets as far as opening
Opens(c) ==
    IF c.op = "merge"
    THEN IF c.out_path = <<>> THEN {}
         ELSE {StrippedNonEmpty(c.paths_str)[i] : i \in 1..Len(StrippedNonEmpty(c.paths_str))}
    ELSE IF c.out_dir = <<>> \/ (c.op = "chosen" /\ StrippedNonEmpty(c.pages_spec) = <<>>)
         THEN {}
         ELSE {c.pdf_path}

\* the runs the specification quotes: "1;3-4;2" on a 5-page document, and
\* the merge of documents of 2 and 3 pages
QuotedSpec == <<"1", ";", "3", "-", "4", ";", "2">>

QuotedChosen ==
    [call |-> [NoCall EXCEPT !.op = "chosen", !.pdf_path = PathA, !.out_dir = OutDir,
                             !.pages_spec = QuotedSpec],
     world |-> (PathA :> [kind |-> "plain", pages |-> 5]) @@ (PathB :> PlainEmpty)]

QuotedMerge ==
    [call |-> [NoCall EXCEPT !.op = "merge", !.paths_str = PathA \o <<";">> \o PathB,
                             !.out_path = OutFile],
     world |-> (PathA :> [kind |-> "plain", pages |-> 2])
                 @@ (PathB :> [kind |-> "plain", pages |-> 3])]

Init ==
    /\ selection = <<>> /\ total_pages = 0 /\ parsed = Pending
    /\ \/ /\ call \in SplitCalls \cup ChosenCalls \cup MergeCalls
          /\ \E a \in (IF PathA \in Opens(call) THEN DocStates ELSE {PlainEmpty}) :
             \E b \in (IF PathB \in Opens(call) THEN DocStates ELSE {PlainEmpty}) :
                world = (PathA :> a) @@ (PathB :> b)
       \/ \E q \in {QuotedChosen, QuotedMerge} : call = q.call /\ world = q.world
    /\ pc = "validate"
    /\ reader = NoReader
    /\ groups = <<>>
    /\ paths = <<>>
    /\ idx = 0
    /\ writer = <<>>
    /\ disk = <<>>
    /\ dirs = {}
    /\ trace = <<>>
    /\ queue = <<>>
    /\ prev = NoPrev
    /\ clicks = 0

(***************************************************************************)
(* splitter.py: PdfSplitter.split                                          *)
(***************************************************************************)
\* an early return after human_error(msg)
Refuse(msg) ==
    /\ trace' = Append(trace, ErrorEv(msg))
    /\ pc' = "done"
    /\ UNCHANGED <<reader, groups, paths, idx, writer, disk, dirs>>

\* os.makedirs(out_dir, exist_ok=True) went through
MadeDirs(dir) ==
    /\ dirs' = dirs \cup {dir}
    /\ trace' = Append(trace, Ev("makedirs", dir))
    /\ pc' = "open"

\* PdfReader(path) and the decryption attempt, as events
OpenEvents(path) ==
    <<Ev("open", path)>> \o (IF world[path].kind # "corrupt" /\ Encrypted(path)
                              THEN <<Ev("decrypt", path)>> ELSE <<>>)

\* the arguments checked and the output folder made
SplitValidate ==
    /\ call.op = "split" /\ pc = "validate"
    /\ UNCHANGED <<parseVars, uiVars, call, world>>
    /\ IF call.pdf_path = <<>>
          THEN Refuse(<<"Please select a PDF file first.">>)
       ELSE IF ~IsFile(call.pdf_path)
          THEN Refuse(<<"The selected PDF file does not exist.">>)
       ELSE IF call.out_dir = <<>>
          THEN Refuse(<<"Please choose an output folder.">>)
       ELSE \/ /\ MadeDirs(call.out_dir)
               /\ UNCHANGED <<reader, groups, paths, idx, writer, disk>>
            \/ Refuse(<<"Cannot create the output folder.">>)

\* the document opened, decrypted if need be, and its pages counted
SplitOpen ==
    /\ call.op = "split" /\ pc = "open"
    /\ UNCHANGED <<parseVars, uiVars, call, world, groups, paths, writer, disk, dirs>>
    /\ LET path == call.pdf_path
           seen == Append(trace, StatusEv(<<"Reading PDF...">>)) \o OpenEvents(path)
       IN  IF world[path].kind = "corrupt"
             THEN /\ trace' = seen \o <<Ev("raise", "PdfReader")>> \o Unexpected(SplitFailed)
                  /\ pc' = "done"
                  /\ UNCHANGED <<reader, idx>>
           ELSE IF Encrypted(path) /\ DecryptFails(path)
             THEN /\ trace' = Append(seen, ErrorEv(
                        <<"This PDF appears to be password-protected. Decryption failed.">>))
                  /\ pc' = "done"
                  /\ UNCHANGED <<reader, idx>>
           ELSE IF IsEmptyDocument(Len(PagesOf(path)))
             THEN /\ trace' = Append(seen, ErrorEv(<<"No pages found in the PDF.">>))
                  /\ pc' = "done"
                  /\ UNCHANGED <<reader, idx>>
           ELSE /\ trace' = seen
                /\ reader' = [path |-> path, pages |-> PagesOf(path)]
                /\ idx' = 1
                /\ pc' = IF PagesOf(path) = <<>> THEN "finish" ELSE "page"

\* mutant of SplitPage: status and progress reported before the file is written
SplitPageReportsFirst ==
    /\ call.op = "split" /\ pc = "page"
    /\ UNCHANGED <<parseVars, uiVars, call, world, reader, groups, paths, writer, dirs>>
    /\ LET total == Len(reader.pages)
           base == SplitextRoot(Basename(call.pdf_path))
           out_path == JoinPath(call.out_dir, PageFileName(base, idx))
           content == <<reader.pages[idx]>>
           reported == trace \o <<Ev("read", reader.pages[idx]),
                                  StatusEv(<<"Writing page ", idx, "/", total, "...">>),
                                  ProgressEv(idx, total)>>
       IN  \/ /\ disk' = WriteFile(disk, out_path, content)
              /\ trace' = Append(reported, Ev("write", [path |-> out_path, pages |-> content]))
              /\ idx' = idx + 1
              /\ pc' = IF idx = total THEN "finish" ELSE "page"
           \/ /\ disk' \in {disk, (out_path :> Torn) @@ disk}
              /\ trace' = reported \o <<Ev("raise", "write")>> \o Unexpected(SplitFailed)
              /\ pc' = "done"
              /\ UNCHANGED idx

\* one turn of the loop: page idx written to its own file
SplitPage ==
    /\ call.op = "split" /\ pc = "page"
    /\ UNCHANGED <<parseVars, uiVars, call, world, reader, groups, paths, writer, dirs>>
    /\ LET total == Len(reader.pages)
           base == SplitextRoot(Basename(call.pdf_path))
           out_path == JoinPath(call.out_dir, PageFileName(base, idx))
           content == <<reader.pages[idx]>>
       IN  \/ /\ disk' = WriteFile(disk, out_path, content)
              /\ trace' = trace \o
                    <<Ev("read", reader.pages[idx]),
                      Ev("write", [path |-> out_path, pages |-> content]),
                      StatusEv(<<"Writing page ", idx, "/", total, "...">>),
                      ProgressEv(idx, total)>>
              /\ idx' = idx + 1
              /\ pc' = IF idx = total THEN "finish" ELSE "page"
           \* open() or writer.write() raised: the file may be left torn
           \/ /\ disk' \in {disk, (out_path :> Torn) @@ disk}
              /\ trace' = trace \o <<Ev("raise", "write")>> \o Unexpected(SplitFailed)
              /\ pc' = "done"
              /\ UNCHANGED idx

\* the terminal status (os.startfile's failure is swallowed)
SplitFinish ==
    /\ call.op = "split" /\ pc = "finish"
    /\ trace' = Append(trace, StatusEv(
            <<"Done. Wrote ", Len(reader.pages), " files to:\n", call.out_dir>>))
    /\ pc' = "done"
    /\ UNCHANGED <<parseVars, uiVars, call, world, reader, groups, paths, idx, writer, disk, dirs>>

(***************************************************************************)
(* splitter.py: PdfSplitter.split_chosen_pages                             *)
(***************************************************************************)
\* the arguments checked, the groups cut out and the output folder made
ChosenValidate ==
    /\ call.op = "chosen" /\ pc = "validate"
    /\ UNCHANGED <<parseVars, uiVars, call, world>>
    /\ IF call.pdf_path = <<>>
          THEN Refuse(<<"Please select a PDF file first.">>)
       ELSE IF ~IsFile(call.pdf_path)
          THEN Refuse(<<"The selected PDF file does not exist.">>)
       ELSE IF call.out_dir = <<>>
          THEN Refuse(<<"Please choose an output folder.">>)
       ELSE IF call.pages_spec = <<>>
          THEN Refuse(<<"Please specify page selections.">>)
       ELSE IF StrippedNonEmpty(call.pages_spec) = <<>>
          THEN Refuse(<<"Please specify page selections.">>)
       ELSE \/ /\ MadeDirs(call.out_dir)
               /\ groups' = StrippedNonEmpty(call.pages_spec)
               /\ UNCHANGED <<reader, paths, idx, writer, disk>>
            \/ Refuse(<<"Cannot create the output folder.">>)

\* the document opened and decrypted if need be
ChosenOpen ==
    /\ call.op = "chosen" /\ pc = "open"
    /\ UNCHANGED <<parseVars, uiVars, call, world, groups, paths, writer, disk, dirs>>
    /\ LET path == call.pdf_path
           seen == Append(trace, StatusEv(<<"Reading PDF...">>)) \o OpenEvents(path)
       IN  IF world[path].kind = "corrupt"
             THEN /\ trace' = seen \o <<Ev("raise", "PdfReader")>> \o Unexpected(SplitFailed)
                  /\ pc' = "done"
                  /\ UNCHANGED <<reader, idx>>
           ELSE IF Encrypted(path) /\ DecryptFails(path)
             THEN /\ trace' = Append(seen, ErrorEv(
                        <<"This PDF appears to be password-protected. Decryption failed.">>))
                  /\ pc' = "done"
                  /\ UNCHANGED <<reader, idx>>
           ELSE /\ trace' = seen
                /\ reader' = [path |-> path, pages |-> PagesOf(path)]
                /\ idx' = 1
                /\ pc' = "group"

\* mutant of PickPages: reader.pages[p] in place of reader.pages[p - 1]
PickPagesShifted(pages, page_numbers) ==
    [i \in 1..Len(page_numbers) |->
        pages[IF page_numbers[i] < Len(pages) THEN page_numbers[i] + 1 ELSE 1]]

\* reader.pages[p - 1] raises IndexError: p - 1 is outside -len .. len - 1
IndexRaises(pages, p) == p > Len(pages) \/ p < 1 - Len(pages)

\* reader.pages[p - 1] (pages is 1-based here); an index below 0 counts from the end
PageAt(pages, p) == IF p >= 1 THEN pages[p] ELSE pages[Len(pages) + p]

\* reader.pages[p - 1] for p in page_numbers
PickPages(pages, page_numbers) ==
    [i \in 1..Len(page_numbers) |-> PageAt(pages, page_numbers[i])]

\* mutant of ChosenGroup: the output file opened before the group is parsed
ChosenGroupOpensFirst ==
    /\ call.op = "chosen" /\ pc = "group"
    /\ UNCHANGED <<parseVars, uiVars, call, world, reader, groups, paths, writer, dirs>>
    /\ LET total_groups == Len(groups)
           page_numbers == parse_page_selection(groups[idx], Len(reader.pages))
           base == SplitextRoot(Basename(call.pdf_path))
           out_path == JoinPath(call.out_dir, SelFileName(base, idx))
           content == PickPages(reader.pages, page_numbers.pages)
       IN  IF ~page_numbers.ok
             THEN /\ disk' = (out_path :> Torn) @@ disk
                  /\ trace' = trace \o <<Ev("write", [path |-> out_path, pages |-> <<>>]),
                                          ErrorEv(ParseErrorText(page_numbers))>>
                  /\ pc' = "done"
                  /\ UNCHANGED idx
           ELSE /\ disk' = WriteFile(disk, out_path, content)
                /\ trace' = trace \o
                      [i \in 1..Len(content) |-> Ev("read", content[i])] \o
                      <<Ev("write", [path |-> out_path, pages |-> content]),
                        StatusEv(<<"Writing file ", idx, "/", total_groups, "...">>),
                        ProgressEv(idx, total_groups)>>
                /\ idx' = idx + 1
                /\ pc' = IF idx = total_groups THEN "finish" ELSE "group"

\* one turn of the loop: group idx parsed and its pages written to a file
ChosenGroup ==
    /\ call.op = "chosen" /\ pc = "group"
    /\ UNCHANGED <<parseVars, uiVars, call, world, reader, groups, paths, writer, dirs>>
    /\ LET total_groups == Len(groups)
           page_numbers == parse_page_selection(groups[idx], Len(reader.pages))
           base == SplitextRoot(Basename(call.pdf_path))
           out_path == JoinPath(call.out_dir, SelFileName(base, idx))
           content == PickPages(reader.pages, page_numbers.pages)
       IN  IF ~page_numbers.ok
             THEN /\ trace' = Append(trace,
                                     ErrorEv(ParseErrorText(page_numbers)))
                  /\ pc' = "done"
                  /\ UNCHANGED <<idx, disk>>
           ELSE IF \E i \in 1..Len(page_numbers.pages) :
                        IndexRaises(reader.pages, page_numbers.pages[i])
             THEN /\ trace' = trace \o <<Ev("raise", "IndexError")>> \o Unexpected(SplitFailed)
                  /\ pc' = "done"
                  /\ UNCHANGED <<idx, disk>>
           ELSE \/ /\ disk' = WriteFile(disk, out_path, content)
                   /\ trace' = trace \o
                         [i \in 1..Len(content) |-> Ev("read", content[i])] \o
                         <<Ev("write", [path |-> out_path, pages |-> content]),
                           StatusEv(<<"Writing file ", idx, "/", total_groups, "...">>),
                           ProgressEv(idx, total_groups)>>
                   /\ idx' = idx + 1
                   /\ pc' = IF idx = total_groups THEN "finish" ELSE "group"
                \* open() or writer.write() raised: the file may be left torn
                \/ /\ disk' \in {disk, (out_path :> Torn) @@ disk}
                   /\ trace' = trace \o <<Ev("raise", "write")>> \o Unexpected(SplitFailed)
                   /\ pc' = "done"
                   /\ UNCHANGED idx

\* the terminal status (os.startfile's failure is swallowed)
ChosenFinish ==
    /\ call.op = "chosen" /\ pc = "finish"
    /\ trace' = Append(trace, StatusEv(
            <<"Done. Wrote ", Len(groups), " files to:\n", call.out_dir>>))
    /\ pc' = "done"
    /\ UNCHANGED <<parseVars, uiVars, call, world, reader, groups, paths, idx, writer, disk, dirs>>

(***************************************************************************)
(* merger.py: PdfMerger.merge                                              *)
(***************************************************************************)
\* the arguments checked and the source list cut out
MergeValidate ==
    /\ call.op = "merge" /\ pc = "validate"
    /\ UNCHANGED <<parseVars, uiVars, call, world>>
    /\ IF call.paths_str = <<>>
          THEN Refuse(<<"Please select PDF files to merge.">>)
       ELSE IF call.out_path = <<>>
          THEN Refuse(<<"Please choose an output file.">>)
       ELSE /\ paths' = StrippedNonEmpty(call.paths_str)
            /\ writer' = <<>>
            /\ idx' = 1
            /\ pc' = IF StrippedNonEmpty(call.paths_str) = <<>> THEN "write" ELSE "source"
            /\ UNCHANGED <<reader, groups, disk, dirs, trace>>

\* mutant of MergeSource: the output written anew after every source
MergeSourceWritesEachTime ==
    /\ call.op = "merge" /\ pc = "source"
    /\ UNCHANGED <<parseVars, uiVars, call, world, groups, paths, dirs>>
    /\ LET total == Len(paths)
           path == paths[idx]
       IN  IF ~IsFile(path)
             THEN /\ trace' = Append(trace, ErrorEv(NotFoundText(path)))
                  /\ pc' = "done"
                  /\ UNCHANGED <<reader, idx, writer, disk>>
           ELSE IF world[path].kind = "corrupt"
             THEN /\ trace' = trace \o OpenEvents(path) \o <<Ev("raise", "PdfReader")>>
                                  \o Unexpected(MergeFailed)
                  /\ pc' = "done"
                  /\ UNCHANGED <<reader, idx, writer, disk>>
           ELSE IF Encrypted(path) /\ DecryptFails(path)
             THEN /\ trace' = trace \o OpenEvents(path) \o <<ErrorEv(
                        <<"One of the PDFs is password-protected. Decryption failed.">>)>>
                  /\ pc' = "done"
                  /\ UNCHANGED <<reader, idx, writer, disk>>
           ELSE /\ reader' = [path |-> path, pages |-> PagesOf(path)]
                /\ writer' = AddPages(writer, PagesOf(path))
                /\ disk' = WriteFile(disk, call.out_path, writer')
                /\ trace' = trace \o OpenEvents(path) \o
                      [i \in 1..Len(PagesOf(path)) |-> Ev("read", PagesOf(path)[i])] \o
                      <<Ev("write", [path |-> call.out_path, pages |-> writer']),
                        StatusEv(<<"Processed ", idx, "/", total, " files...">>),
                        ProgressEv(idx, total)>>
                /\ idx' = idx + 1
                /\ pc' = IF idx = total THEN "write" ELSE "source"

\* one turn of the loop: source idx opened and all its pages added
MergeSource ==
    /\ call.op = "merge" /\ pc = "source"
    /\ UNCHANGED <<parseVars, uiVars, call, world, groups, paths, disk, dirs>>
    /\ LET total == Len(paths)
           path == paths[idx]
       IN  IF ~IsFile(path)
             THEN /\ trace' = Append(trace, ErrorEv(NotFoundText(path)))
                  /\ pc' = "done"
                  /\ UNCHANGED <<reader, idx, writer>>
           ELSE IF world[path].kind = "corrupt"
             THEN /\ trace' = trace \o OpenEvents(path) \o <<Ev("raise", "PdfReader")>>
                                  \o Unexpected(MergeFailed)
                  /\ pc' = "done"
                  /\ UNCHANGED <<reader, idx, writer>>
           ELSE IF Encrypted(path) /\ DecryptFails(path)
             THEN /\ trace' = trace \o OpenEvents(path) \o <<ErrorEv(
                        <<"One of the PDFs is password-protected. Decryption failed.">>)>>
                  /\ pc' = "done"
                  /\ UNCHANGED <<reader, idx, writer>>
           ELSE /\ reader' = [path |-> path, pages |-> PagesOf(path)]
                /\ writer' = AddPages(writer, PagesOf(path))
                /\ trace' = trace \o OpenEvents(path) \o
                      [i \in 1..Len(PagesOf(path)) |-> Ev("read", PagesOf(path)[i])] \o
                      <<StatusEv(<<"Processed ", idx, "/", total, " files...">>),
                        ProgressEv(idx, total)>>
                /\ idx' = idx + 1
                /\ pc' = IF idx = total THEN "write" ELSE "source"

\* the accumulated document written once, and the terminal status
MergeWrite ==
    /\ call.op = "merge" /\ pc = "write"
    /\ UNCHANGED <<parseVars, uiVars, call, world, reader, groups, paths, idx, writer, dirs>>
    /\ \/ /\ disk' = WriteFile(disk, call.out_path, writer)
          /\ trace' = trace \o
                <<Ev("write", [path |-> call.out_path, pages |-> writer]),
                  StatusEv(<<"Done. Wrote merged PDF to:\n", call.out_path>>)>>
          /\ pc' = "done"
       \* open() or writer.write() raised: the file may be left torn
       \/ /\ disk' \in {disk, (call.out_path :> Torn) @@ disk}
          /\ trace' = trace \o <<Ev("raise", "write")>> \o Unexpected(MergeFailed)
          /\ pc' = "done"

Next ==
    \/ SplitValidate
    \/ SplitOpen
    \/ SplitPage
    \/ SplitFinish
    \/ ChosenValidate
    \/ ChosenOpen
    \/ ChosenGroup
    \/ ChosenFinish
    \/ MergeValidate
    \/ MergeSource
    \/ MergeWrite

Spec == Init /\ [][Next]_vars

(***************************************************************************)
(* What a call did, read off its trace.                                    *)
(***************************************************************************)
Events(kind) == SelectSeq(trace, LAMBDA ev : ev.e = kind)

Payloads(kind) == [i \in 1..Len(Events(kind)) |-> Events(kind)[i].x]

Errors == Payloads("error")

Writes == Payloads("write")

Progress == Payloads("progress")

Opened == Payloads("open")

\* the errors that report a failure of the filesystem or of the PDF library
IOFailureTexts == {"Cannot create the output folder.", SplitFailed, MergeFailed}

NoIOFailure == \A i \in 1..Len(Errors) : Errors[i][1] \notin IOFailureTexts

\* a file that exists, can be read, and is not locked by a password
Openable(path) == IsFile(path) /\ world[path].kind \in {"plain", "enc_ok"}

\* split and split_chosen_pages called on d/a.pdf and o, both in order
SplitsPathA == call.pdf_path = PathA /\ call.out_dir = OutDir /\ Openable(PathA)

\* k written with exactly 3 and 2 decimal digits
ThreeDigits(k) ==
    <<Digits[((k \div 100) % 10) + 1], Digits[((k \div 10) % 10) + 1], Digits[(k % 10) + 1]>>

TwoDigits(k) == <<Digits[((k \div 10) % 10) + 1], Digits[(k % 10) + 1]>>

\* o/a_pNNN.pdf and o/a_selKK.pdf
ExpectedPageFile(k) == <<"o", "/", "a", "_", "p">> \o ThreeDigits(k) \o <<".", "p", "d", "f">>

ExpectedSelFile(k) ==
    <<"o", "/", "a", "_", "s", "e", "l">> \o TwoDigits(k) \o <<".", "p", "d", "f">>

(***************************************************************************)
(* C3: split on a document of N >= 1 pages, with valid arguments and no    *)
(* I/O failure, writes exactly N files, in ascending k, the k-th named     *)
(* {base}_p{k:03d}.pdf and holding page k alone, and the last progress     *)
(* reported is (N, N).                                                     *)
(***************************************************************************)
C3_SplitOnePerPage ==
    (/\ call.op = "split" /\ pc = "done" /\ SplitsPathA
     /\ world[PathA].pages >= 1 /\ NoIOFailure)
        => LET N == world[PathA].pages
           IN  /\ Len(Writes) = N
               /\ \A k \in 1..N :
                     /\ Writes[k].path = ExpectedPageFile(k)
                     /\ Writes[k].pages = <<<<PathA, k>>>>
                     /\ disk[ExpectedPageFile(k)] = [pages |-> <<<<PathA, k>>>>,
                                                     complete |-> TRUE]
               /\ DOMAIN disk = {ExpectedPageFile(k) : k \in 1..N}
               /\ Progress # <<>> /\ Progress[Len(Progress)] = <<N, N>>
               /\ Errors = <<>>

\* a finished split of a document of at least two pages
C3_Witness ==
    /\ call.op = "split" /\ pc = "done" /\ SplitsPathA /\ NoIOFailure
    /\ world[PathA].pages >= 2
    /\ Len(Writes) = world[PathA].pages

(***************************************************************************)
(* C4: split on a document with zero pages writes no output file and       *)
(* emits no progress callback, and, the document once opened, fails with   *)
(* the EmptyDocument error.                                                *)
(***************************************************************************)
C4_EmptyDocument ==
    (call.op = "split" /\ IsFile(call.pdf_path) /\ world[call.pdf_path].pages = 0)
        => /\ Writes = <<>>
           /\ disk = <<>>
           /\ Progress = <<>>
           /\ (pc = "done" /\ SplitsPathA /\ NoIOFailure)
                 => Errors = << <<"No pages found in the PDF.">> >>

\* a split of an openable zero-page document that has ended
C4_Witness ==
    /\ call.op = "split" /\ pc = "done" /\ SplitsPathA /\ NoIOFailure
    /\ world[PathA].pages = 0
    /\ Opened = <<PathA>>

(***************************************************************************)
(* C5: split_chosen_pages with G non-empty groups that all parse writes    *)
(* exactly G files; the file of the k-th non-empty group is                *)
(* {base}_sel{k:02d}.pdf and holds the input pages the group lists, in the *)
(* group's order, repeats kept.                                            *)
(***************************************************************************)
C5_ChosenOnePerGroup ==
    LET gs == Items(call.pages_spec, ";")
        N == world[PathA].pages
        want(k) == [i \in 1..Len(ExpectedPages(gs[k])) |->
                       <<PathA, ExpectedPages(gs[k])[i]>>]
    IN  (/\ call.op = "chosen" /\ pc = "done" /\ SplitsPathA /\ NoIOFailure
         /\ Len(gs) >= 1
         /\ \A k \in 1..Len(gs) : AllValid(gs[k], N))
            => /\ Len(Writes) = Len(gs)
               /\ \A k \in 1..Len(gs) :
                     /\ Writes[k].path = ExpectedSelFile(k)
                     /\ Writes[k].pages = want(k)
                     /\ disk[ExpectedSelFile(k)] = [pages |-> want(k), complete |-> TRUE]
               /\ DOMAIN disk = {ExpectedSelFile(k) : k \in 1..Len(gs)}
               /\ Errors = <<>>
               /\ call.pages_spec = QuotedSpec /\ N = 5
                     => [k \in 1..3 |-> Writes[k].pages] =
                          << <<<<PathA, 1>>>>, <<<<PathA, 3>>, <<PathA, 4>>>>,
                             <<<<PathA, 2>>>> >>

\* a finished run whose pages_spec has an empty group among the others and a
\* group that lists page 2 before page 1
C5_Witness ==
    LET gs == Items(call.pages_spec, ";")
    IN  /\ call.op = "chosen" /\ pc = "done" /\ SplitsPathA /\ NoIOFailure
        /\ Len(gs) >= 2
        /\ Cardinality(Cuts(call.pages_spec, ";")) - 1 > Len(gs)
        /\ \A k \in 1..Len(gs) : AllValid(gs[k], world[PathA].pages)
        /\ Len(Writes) = Len(gs)
        /\ \E k \in 1..Len(gs) : Writes[k].pages = <<<<PathA, 2>>, <<PathA, 1>>>>

(***************************************************************************)
(* C6: in split_chosen_pages, if group k is the first group that fails to  *)
(* parse, the files of groups 1..k-1 are written and stay on disk, no file *)
(* is written for group k or a later group, the progress reported is       *)
(* (1, G) .. (k-1, G) and no more, and the one error reported is group k's *)
(* parse error.                                                            *)
(***************************************************************************)
C6_ChosenStopsAtBadGroup ==
    LET gs == Items(call.pages_spec, ";")
        N == world[PathA].pages
        bad == {k \in 1..Len(gs) : ~AllValid(gs[k], N)}
        k == CHOOSE j \in bad : \A i \in bad : j <= i
        t == FirstInvalid(gs[k], N)
    IN  (/\ call.op = "chosen" /\ pc = "done" /\ SplitsPathA /\ NoIOFailure
         /\ bad # {})
            => /\ Len(Writes) = k - 1
               /\ \A j \in 1..(k - 1) :
                     /\ Writes[j].path = ExpectedSelFile(j)
                     /\ disk[ExpectedSelFile(j)] = [pages |-> Writes[j].pages,
                                                    complete |-> TRUE]
               /\ DOMAIN disk = {ExpectedSelFile(j) : j \in 1..(k - 1)}
               /\ Progress = [j \in 1..(k - 1) |-> <<j, Len(gs)>>]
               /\ Len(Errors) = 1
               /\ Len(Errors[1]) = 2
               /\ Errors[1][2] = t
               /\ Errors[1][1] \in (IF IsRangeToken(t) THEN InvalidRange
                                                        ELSE InvalidPageNumber)

\* a run stopped at its second group, with a third group never attempted
C6_Witness ==
    LET gs == Items(call.pages_spec, ";")
        N == world[PathA].pages
    IN  /\ call.op = "chosen" /\ pc = "done" /\ SplitsPathA /\ NoIOFailure
        /\ Len(gs) = 3
        /\ AllValid(gs[1], N) /\ ~AllValid(gs[2], N)
        /\ Len(Writes) = 1 /\ Len(Errors) = 1

(***************************************************************************)
(* C7: merge over existing, decryptable sources s1..sm writes one output   *)
(* document whose pages are pages(s1) ++ ... ++ pages(sm), each source's   *)
(* pages in their own order; its page count is the sum of the sources'.    *)
(***************************************************************************)
RECURSIVE PageCountSum(_)
PageCountSum(srcs) ==
    IF srcs = <<>> THEN 0 ELSE world[Head(srcs)].pages + PageCountSum(Tail(srcs))

C7_MergeConcatenates ==
    LET srcs == Items(call.paths_str, ";")
        want == Flatten([i \in 1..Len(srcs) |->
                           [j \in 1..world[srcs[i]].pages |-> <<srcs[i], j>>]])
    IN  (/\ call.op = "merge" /\ pc = "done" /\ call.out_path = OutFile
         /\ Len(srcs) >= 1
         /\ \A i \in 1..Len(srcs) : Openable(srcs[i])
         /\ NoIOFailure)
            => /\ Len(Writes) = 1
               /\ Writes[1].path = OutFile
               /\ Writes[1].pages = want
               /\ Len(Writes[1].pages) = PageCountSum(srcs)
               /\ DOMAIN disk = {OutFile}
               /\ disk[OutFile] = [pages |-> want, complete |-> TRUE]
               /\ Errors = <<>>
               /\ (srcs = <<PathA, PathB>> /\ world[PathA].pages = 2
                      /\ world[PathB].pages = 3)
                     => Writes[1].pages = <<<<PathA, 1>>, <<PathA, 2>>, <<PathB, 1>>,
                                            <<PathB, 2>>, <<PathB, 3>>>>

\* a finished merge of b.pdf and then d/a.pdf, each with pages
C7_Witness ==
    LET srcs == Items(call.paths_str, ";")
    IN  /\ call.op = "merge" /\ pc = "done" /\ call.out_path = OutFile /\ NoIOFailure
        /\ Len(srcs) >= 2 /\ srcs[1] = PathB /\ srcs[2] = PathA
        /\ Openable(PathA) /\ Openable(PathB)
        /\ world[PathA].pages >= 1 /\ world[PathB].pages >= 2
        /\ Len(Writes) = 1

(***************************************************************************)
(* C8: merge fails with MissingInput and writes nothing whenever the list  *)
(* of sources (the input cut at ";", entries trimmed, empty entries        *)
(* dropped) is empty; stated here for calls that name an output path.      *)
(***************************************************************************)
C8_EmptyListRefused ==
    (/\ call.op = "merge" /\ pc = "done" /\ call.out_path # <<>>
     /\ Items(call.paths_str, ";") = <<>>)
        => /\ Errors = << <<"Please select PDF files to merge.">> >>
           /\ Writes = <<>>
           /\ disk = <<>>

(***************************************************************************)
(* C9: in merge, if the k-th listed source is the first that does not      *)
(* exist, the merge stops with FileNotFound naming that path: only the     *)
(* sources 1..k-1 were opened, nothing is written, and progress was        *)
(* reported for the sources 1..k-1 only.                                   *)
(***************************************************************************)
C9_MergeStopsAtMissing ==
    LET srcs == Items(call.paths_str, ";")
        missing == {i \in 1..Len(srcs) : ~IsFile(srcs[i])}
        k == CHOOSE j \in missing : \A i \in missing : j <= i
    IN  (/\ call.op = "merge" /\ pc = "done" /\ call.out_path # <<>>
         /\ missing # {}
         /\ \A j \in 1..(k - 1) : Openable(srcs[j]))
            => /\ Errors = << <<"File not found: ", srcs[k]>> >>
               /\ Opened = SubSeq(srcs, 1, k - 1)
               /\ Writes = <<>>
               /\ disk = <<>>
               /\ Progress = [j \in 1..(k - 1) |-> <<j, Len(srcs)>>]

\* a merge stopped at a missing second source after reading the first, with
\* an existing third source left unopened
C9_Witness ==
    LET srcs == Items(call.paths_str, ";")
    IN  /\ call.op = "merge" /\ pc = "done" /\ call.out_path # <<>>
        /\ Len(srcs) = 3 /\ Openable(srcs[1]) /\ ~IsFile(srcs[2]) /\ IsFile(srcs[3])
        /\ world[srcs[1]].pages >= 1
        /\ Len(Errors) = 1 /\ Len(Progress) = 1

(***************************************************************************)
(* C10: a document that reports itself encrypted gets exactly one          *)
(* decryption attempt, right after it is opened, and an unencrypted one    *)
(* gets none; when the attempt returns failure or raises, the operation    *)
(* ends there with DecryptionFailed: no page is read after it and no       *)
(* output file is written.                                                 *)
(***************************************************************************)
DecryptionFailed ==
    {"This PDF appears to be password-protected. Decryption failed.",
     "One of the PDFs is password-protected. Decryption failed."}

C10_DecryptOnce ==
    \A i \in 1..Len(trace) :
        /\ (trace[i].e = "open" /\ Encrypted(trace[i].x))
              => /\ i < Len(trace)
                 /\ trace[i + 1].e = "decrypt"
                 /\ trace[i + 1].x = trace[i].x
        /\ (trace[i].e = "open" /\ ~Encrypted(trace[i].x))
              => (i = Len(trace) \/ trace[i + 1].e # "decrypt")
        /\ trace[i].e = "decrypt"
              => i > 1 /\ trace[i - 1].e = "open" /\ trace[i - 1].x = trace[i].x
        /\ (trace[i].e = "decrypt"
               /\ world[trace[i].x].kind \in {"enc_zero", "enc_raise"})
              => /\ Len(trace) = i + 1
                 /\ trace[i + 1].e = "error"
                 /\ trace[i + 1].x[1] \in DecryptionFailed
                 /\ pc = "done"
                 /\ Writes = <<>>
                 /\ disk = <<>>

\* a merge whose second source fails to decrypt after the first was read
C10_Witness ==
    /\ call.op = "merge" /\ pc = "done"
    /\ \E i \in 1..Len(trace) :
          /\ trace[i].e = "decrypt"
          /\ world[trace[i].x].kind = "enc_raise"
          /\ \E j \in 1..(i - 1) : trace[j].e = "read"
          /\ \E j \in 1..(i - 1) : trace[j].e = "decrypt"

(***************************************************************************)
(* C11: split and split_chosen_pages called with an empty input path, an   *)
(* input path that is not a file or an empty output directory, and         *)
(* split_chosen_pages called with a pages_spec that is empty or holds no   *)
(* non-empty group, fail with one validation error (the first check that   *)
(* fails, in the order input path, output directory, pages_spec, the last  *)
(* being MissingPageSelection) and do nothing else: no directory is made,  *)
(* no document opened, no file written, no status or progress reported.    *)
(***************************************************************************)
\* the validation error the arguments of a split or split_chosen_pages call earn
ValidationText(c) ==
    IF c.pdf_path = <<>> THEN "Please select a PDF file first."
    ELSE IF c.pdf_path \notin DOMAIN world THEN "The selected PDF file does not exist."
    ELSE IF c.out_dir = <<>> THEN "Please choose an output folder."
    ELSE "Please specify page selections."

NoGroup(c) == c.op = "chosen" /\ Items(c.pages_spec, ";") = <<>>

BadArguments(c) ==
    \/ c.pdf_path = <<>>
    \/ c.pdf_path \notin DOMAIN world
    \/ c.out_dir = <<>>
    \/ NoGroup(c)

C11_RefusedBeforeAnyEffect ==
    (call.op \in {"split", "chosen"} /\ BadArguments(call))
        => /\ dirs = {}
           /\ disk = <<>>
           /\ Opened = <<>>
           /\ Writes = <<>>
           /\ Events("makedirs") = <<>>
           /\ Events("status") = <<>>
           /\ Progress = <<>>
           /\ pc \in {"validate", "done"}
           /\ pc = "validate" => trace = <<>>
           /\ pc = "done" => trace = <<[e |-> "error", x |-> <<ValidationText(call)>>]>>

\* split_chosen_pages refused for a pages_spec of separators and blanks alone
C11_Witness ==
    /\ call.op = "chosen" /\ pc = "done"
    /\ call.pdf_path = PathA /\ call.out_dir = OutDir
    /\ Len(call.pages_spec) >= 3
    /\ NoGroup(call)
    /\ Errors = << <<"Please specify page selections.">> >>

(***************************************************************************)
(* ui.py: the application window. A press of a tab's action button is an   *)
(* event in Tk's queue; mainloop hands it to the button's command, which   *)
(* calls the engine and returns when the engine does.                      *)
(***************************************************************************)
MaxClicks == 3

\* the fields of the three tabs, as the commands read them
SplitTabCall == [NoCall EXCEPT !.op = "split", !.pdf_path = PathA, !.out_dir = OutDir]

ChosenTabCall ==
    [NoCall EXCEPT !.op = "chosen", !.pdf_path = PathA, !.out_dir = OutDir,
                   !.pages_spec = <<"1", ";", "2">>]

MergeTabCall ==
    [NoCall EXCEPT !.op = "merge", !.paths_str = PathA \o <<";">> \o PathB,
                   !.out_path = OutFile]

ButtonCalls == {SplitTabCall, ChosenTabCall, MergeTabCall}

\* mutant of UpdateDispatchesClicks: self.update() in place of self.update_idletasks()
UpdateDispatchesClicksToo == TRUE

\* self.update_idletasks() in _update_status and _update_progress: redraws,
\* and leaves the button events in the queue
UpdateDispatchesClicks == FALSE

\* the engine is inside a status or progress callback
InCallback ==
    /\ pc # "done"
    /\ trace # <<>>
    /\ trace[Len(trace)].e \in {"status", "progress"}

InitUI ==
    /\ selection = <<>> /\ total_pages = 0 /\ parsed = Pending
    /\ call = NoCall
    /\ \E a \in {d \in DocStates : d.kind \in {"plain", "corrupt"}} :
          world = (PathA :> a) @@ (PathB :> [kind |-> "plain", pages |-> 1])
    /\ pc = "done"
    /\ reader = NoReader
    /\ groups = <<>>
    /\ paths = <<>>
    /\ idx = 0
    /\ writer = <<>>
    /\ disk = <<>>
    /\ dirs = {}
    /\ trace = <<>>
    /\ queue = <<>>
    /\ prev = NoPrev
    /\ clicks = 0

\* the user presses a tab's action button: <Button-1> joins the event queue
Click ==
    /\ clicks < MaxClicks
    /\ \E c \in ButtonCalls : queue' = Append(queue, c)
    /\ clicks' = clicks + 1
    /\ UNCHANGED <<parseVars, engineVars, prev>>

\* the event loop hands the oldest button event to its command, which calls
\* the engine with the fields of its tab
Dispatch ==
    /\ queue # <<>>
    /\ pc = "done" \/ (UpdateDispatchesClicks /\ InCallback)
    /\ prev' = [call |-> call, trace |-> trace, disk |-> disk]
    /\ call' = Head(queue)
    /\ queue' = Tail(queue)
    /\ pc' = "validate"
    /\ reader' = NoReader
    /\ groups' = <<>>
    /\ paths' = <<>>
    /\ idx' = 0
    /\ writer' = <<>>
    /\ trace' = <<>>
    /\ UNCHANGED <<parseVars, world, disk, dirs, clicks>>

NextUI ==
    \/ Click
    \/ Dispatch
    \/ SplitValidate
    \/ SplitOpen
    \/ SplitPage
    \/ SplitFinish
    \/ ChosenValidate
    \/ ChosenOpen
    \/ ChosenGroup
    \/ ChosenFinish
    \/ MergeValidate
    \/ MergeSource
    \/ MergeWrite

SpecUI == InitUI /\ [][NextUI]_vars

(***************************************************************************)
(* C12: split run twice in succession on the same unchanged document and   *)
(* the same output directory, both runs free of I/O failures, leaves after *)
(* the second run the files the first run left, each with the same pages:  *)
(* the second run writes the same files again and adds or removes none.    *)
(***************************************************************************)
WritesOf(t) ==
    LET ws == SelectSeq(t, LAMBDA ev : ev.e = "write") IN [i \in 1..Len(ws) |-> ws[i].x]

NoIOFailureIn(t) ==
    \A i \in 1..Len(t) : t[i].e = "error" => t[i].x[1] \notin IOFailureTexts

C12_SplitTwiceSameFiles ==
    (/\ call.op = "split" /\ pc = "done"
     /\ prev.call = call
     /\ NoIOFailureIn(prev.trace) /\ NoIOFailureIn(trace))
        => /\ disk = prev.disk
           /\ WritesOf(trace) = WritesOf(prev.trace)

\* two clean runs of split in a row on a document of at least two pages
C12_Witness ==
    /\ call.op = "split" /\ pc = "done" /\ prev.call = call
    /\ NoIOFailureIn(prev.trace) /\ NoIOFailureIn(trace)
    /\ Len(WritesOf(trace)) >= 2
    /\ \A k \in 1..Len(WritesOf(trace)) : WritesOf(trace)[k].path \in DOMAIN prev.disk

(***************************************************************************)
(* C19: at most one engine operation is in progress at any time: a button  *)
(* event is handed to its command only when no operation is between its    *)
(* start and its return, and never from inside a status or progress        *)
(* callback of a running operation.                                        *)
(***************************************************************************)
C19_OneOperationAtATime == [][Len(queue') < Len(queue) => pc = "done"]_vars

\* a button pressed during an operation waits in the queue while the
\* operation, started after another one returned, is inside a callback
C19_Witness ==
    /\ queue # <<>>
    /\ prev.call.op # "none"
    /\ InCallback
    /\ pc \in {"page", "group", "source"}

(***************************************************************************)
(* The parser called alone, on every selection, or by split_chosen_pages   *)
(* on the groups of a pages_spec.                                          *)
(***************************************************************************)
InitSelection == InitParse \/ (Init /\ call.op = "chosen")

NextSelection ==
    \/ ParseCall
    \/ ChosenValidate
    \/ ChosenOpen
    \/ ChosenGroup
    \/ ChosenFinish

SpecSelection == InitSelection /\ [][NextSelection]_vars

(***************************************************************************)
(* C13: every list parse_page_selection returns holds only numbers n with  *)
(* 1 <= n <= total_pages, and every range token of the selection it was    *)
(* returned for has start <= end; so every group split_chosen_pages is     *)
(* about to read pages for yields indexes p - 1 within 0 .. N - 1, and     *)
(* every page it reads is a page of the input document.                    *)
(***************************************************************************)
RangeTokens(sel) ==
    LET ts == Tokens(sel) IN {ts[i] : i \in {j \in 1..Len(ts) : IsRangeToken(ts[j])}}

C13_PagesInsideDocument ==
    /\ parsed.ok
          => /\ \A i \in 1..Len(parsed.pages) :
                    1 <= parsed.pages[i] /\ parsed.pages[i] <= total_pages
             /\ \A t \in RangeTokens(selection) :
                    /\ RangeA(t).ok /\ RangeB(t).ok
                    /\ RangeA(t).val <= RangeB(t).val
    /\ (call.op = "chosen" /\ pc = "group")
          => LET N == world[call.pdf_path].pages
                 page_numbers == parse_page_selection(groups[idx], Len(reader.pages))
             IN  /\ Len(reader.pages) = N
                 /\ page_numbers.ok
                       => \A i \in 1..Len(page_numbers.pages) :
                             page_numbers.pages[i] - 1 \in 0..(N - 1)
    /\ call.op = "chosen"
          => \A i \in 1..Len(trace) :
                trace[i].e = "read"
                   => /\ trace[i].x[1] = call.pdf_path
                      /\ trace[i].x[2] \in 1..world[call.pdf_path].pages

\* a selection with a range that reaches the last page, parsed
C13_Witness ==
    /\ parsed.ok
    /\ total_pages >= 2
    /\ RangeTokens(selection) # {}
    /\ \E i \in 1..Len(parsed.pages) : parsed.pages[i] = total_pages
    /\ Len(parsed.pages) >= 3

(***************************************************************************)
(* C14, as stated: in split_chosen_pages a grammar error of any group is   *)
(* reported before any file I/O: when it is reported the output directory  *)
(* has not been created and no output file has been written.               *)
(***************************************************************************)
GrammarErrorTexts == InvalidRange \cup InvalidPageNumber

IsGrammarError(ev) == ev.e = "error" /\ ev.x[1] \in GrammarErrorTexts

C14_GrammarErrorBeforeAnyIO ==
    (call.op = "chosen" /\ \E i \in 1..Len(trace) : IsGrammarError(trace[i]))
        => /\ Events("makedirs") = <<>>
           /\ dirs = {}
           /\ Writes = <<>>
           /\ disk = <<>>

(***************************************************************************)
(* C14, amended: in split_chosen_pages the grammar error of group k, the   *)
(* first group that does not parse, is reported before any output file of  *)
(* group k or of a later group is written, and nothing is done after it;   *)
(* by then the output directory has been created and the files of groups   *)
(* 1..k-1, and only those, have been written.                              *)
(***************************************************************************)
C14_GrammarErrorBeforeItsGroup ==
    call.op = "chosen"
        => \A i \in 1..Len(trace) :
              IsGrammarError(trace[i])
                 => LET gs == Items(call.pages_spec, ";")
                        N == world[call.pdf_path].pages
                        written == WritesOf(SubSeq(trace, 1, i - 1))
                        k == Len(written) + 1
                    IN  /\ i = Len(trace)
                        /\ pc = "done"
                        /\ k <= Len(gs)
                        /\ ~AllValid(gs[k], N)
                        /\ \A j \in 1..(k - 1) : AllValid(gs[j], N)
                        /\ \E m \in 1..(i - 1) :
                              trace[m].e = "makedirs" /\ trace[m].x = call.out_dir
                        /\ call.out_dir \in dirs
                        /\ Cardinality(DOMAIN disk) = k - 1
                        /\ \A j \in 1..(k - 1) :
                              /\ written[j].path \in DOMAIN disk
                              /\ disk[written[j].path] = [pages |-> written[j].pages,
                                                          complete |-> TRUE]

\* the grammar error of a third group, reported after two files were written
C14_Witness ==
    /\ call.op = "chosen" /\ pc = "done"
    /\ trace # <<>> /\ IsGrammarError(trace[Len(trace)])
    /\ Len(Writes) = 2
    /\ Cardinality(DOMAIN disk) = 2
    /\ dirs # {}

(***************************************************************************)
(* C15: whenever split, split_chosen_pages or merge ends in a failure of   *)
(* any kind, the status last reported is the empty text: no status such as *)
(* "Reading PDF..." or "Writing file k/G..." is left standing. (A call     *)
(* that failed before it reported any status has left none standing.)      *)
(***************************************************************************)
Statuses == Payloads("status")

C15_FailureClearsStatus ==
    (pc = "done" /\ Errors # <<>>)
        => (Statuses = <<>> \/ Statuses[Len(Statuses)] = <<>>)

(***************************************************************************)
(* C16: an unexpected failure raised while a document is opened or read or *)
(* a file is written (the k-th one included) is caught by the operation:   *)
(* the call returns, what follows the failure is exactly one generic       *)
(* SplitFailed / MergeFailed error and then the empty status, no other     *)
(* error is reported, and the files written before the failure are still   *)
(* on disk, whole.                                                         *)
(***************************************************************************)
GenericFailure(op) == IF op = "merge" THEN MergeFailed ELSE SplitFailed

C16_UnexpectedFailureCaught ==
    \A i \in 1..Len(trace) :
        trace[i].e = "raise"
           => /\ pc = "done"
              /\ Len(trace) = i + 2
              /\ trace[i + 1].e = "error"
              /\ trace[i + 1].x = <<GenericFailure(call.op)>>
              /\ trace[i + 2].e = "status"
              /\ trace[i + 2].x = <<>>
              /\ Len(Errors) = 1
              /\ (trace[i].x = "write" /\ call.op # "merge") => Len(Writes) = idx - 1
              /\ \A j \in 1..Len(Writes) :
                    /\ Writes[j].path \in DOMAIN disk
                    /\ disk[Writes[j].path] = [pages |-> Writes[j].pages,
                                               complete |-> TRUE]

\* the write of a second file failed and left it torn beside the first
C16_Witness ==
    /\ pc = "done"
    /\ \E i \in 1..Len(trace) : trace[i].e = "raise" /\ trace[i].x = "write"
    /\ Len(Writes) = 1
    /\ Cardinality(DOMAIN disk) = 2
    /\ \E f \in DOMAIN disk : ~disk[f].complete

(***************************************************************************)
(* C17: merge opens the output file for writing at most once in a call,    *)
(* and only after every listed source has been opened and read and the     *)
(* progress (1, m) .. (m, m) reported; a merge that stops before that      *)
(* (missing source, failed decryption, unreadable source) leaves the       *)
(* output path as it was, never created.                                   *)
(***************************************************************************)
\* the places in the trace where the output file is opened for writing:
\* a write that went through, or one that raised
IsWriteAttempt(ev) == ev.e = "write" \/ (ev.e = "raise" /\ ev.x = "write")

WriteAttempts == {i \in 1..Len(trace) : IsWriteAttempt(trace[i])}

C17_MergeWritesOnceAtTheEnd ==
    call.op = "merge"
        => LET srcs == Items(call.paths_str, ";")
               m == Len(srcs)
           IN  /\ Cardinality(WriteAttempts) <= 1
               /\ DOMAIN disk \subseteq {call.out_path}
               /\ WriteAttempts = {} => disk = <<>>
               /\ \A i \in WriteAttempts :
                     LET before == SubSeq(trace, 1, i - 1)
                         opened == SelectSeq(before, LAMBDA ev : ev.e = "open")
                         progress == SelectSeq(before, LAMBDA ev : ev.e = "progress")
                     IN  /\ [j \in 1..Len(opened) |-> opened[j].x] = srcs
                         /\ [j \in 1..Len(progress) |-> progress[j].x]
                               = [j \in 1..m |-> <<j, m>>]
                         /\ Errors = <<>> \/ trace[i].e = "raise"
               /\ (pc = "done" /\ Errors # <<>>
                      /\ Errors[1][1] # MergeFailed) => disk = <<>> /\ WriteAttempts = {}

\* three sources merged: the one write comes after progress (3, 3)
C17_Witness ==
    /\ call.op = "merge" /\ pc = "done"
    /\ Len(Progress) = 3
    /\ Cardinality(WriteAttempts) = 1
    /\ \A i \in WriteAttempts : i > 3 /\ trace[i].e = "write" /\ trace[i - 1].e = "progress"
    /\ call.out_path \in DOMAIN disk

(***************************************************************************)
(* C18: during split on a document of N pages the progress reported is     *)
(* (1, N), (2, N), ... in that order, the total always N; (k, N) is        *)
(* reported when file k has been written, whole, and before file k + 1 is  *)
(* opened for writing; and the terminal "Done" status comes only after     *)
(* progress (N, N), all of (1, N) .. (N, N) having been reported.          *)
(***************************************************************************)
IsDoneStatus(ev) == ev.e = "status" /\ ev.x # <<>> /\ ev.x[1] = "Done. Wrote "

ProgressOf(t) ==
    LET ps == SelectSeq(t, LAMBDA ev : ev.e = "progress") IN [i \in 1..Len(ps) |-> ps[i].x]

AttemptsIn(t) == {i \in 1..Len(t) : IsWriteAttempt(t[i])}

C18_SplitProgressInStep ==
    (call.op = "split" /\ call.pdf_path \in DOMAIN world)
        => LET N == world[call.pdf_path].pages
           IN  /\ Len(Progress) <= N
               /\ Progress = [k \in 1..Len(Progress) |-> <<k, N>>]
               /\ \A i \in 1..Len(trace) :
                     LET before == SubSeq(trace, 1, i - 1)
                         written == WritesOf(before)
                     IN  /\ trace[i].e = "progress"
                              => LET k == Len(ProgressOf(before)) + 1
                                 IN  /\ trace[i].x = <<k, N>>
                                     /\ Len(written) = k
                                     /\ Cardinality(AttemptsIn(before)) = k
                                     /\ written[k].pages = <<<<call.pdf_path, k>>>>
                                     /\ written[k].path \in DOMAIN disk
                                     /\ disk[written[k].path].complete
                         /\ IsWriteAttempt(trace[i])
                              => Len(ProgressOf(before)) = Len(written)
                         /\ IsDoneStatus(trace[i])
                              => /\ N >= 1
                                 /\ ProgressOf(before) = [k \in 1..N |-> <<k, N>>]
                                 /\ i = Len(trace)

\* a split of two pages or more that reached its "Done" status
C18_Witness ==
    /\ call.op = "split" /\ pc = "done"
    /\ trace # <<>> /\ IsDoneStatus(trace[Len(trace)])
    /\ Len(Progress) >= 2
    /\ Progress[Len(Progress)] = <<Len(Progress), Len(Progress)>>

(***************************************************************************)
(* C20: every call of split, split_chosen_pages or merge returns, and when *)
(* it has returned it has either reported one terminal "Done" status and   *)
(* no error, or exactly one error and no "Done" status; at no moment has   *)
(* it reported both a "Done" status and an error. That it returns is       *)
(* stated without fairness: every step leads to a state where the call has *)
(* returned or can take a step, and brings down StepsLeft, a bound on the  *)
(* steps to go.                                                            *)
(***************************************************************************)
DoneTexts == {"Done. Wrote ", "Done. Wrote merged PDF to:\n"}

DoneStatuses ==
    SelectSeq(trace, LAMBDA ev : ev.e = "status" /\ ev.x # <<>> /\ ev.x[1] \in DoneTexts)

OneOutcome ==
    \/ Len(DoneStatuses) = 1 /\ Errors = <<>>
    \/ DoneStatuses = <<>> /\ Len(Errors) = 1

\* no more steps than this are left before the call returns
StepsLeft ==
    CASE pc = "done" -> 0
      [] pc \in {"finish", "write"} -> 1
      [] pc = "page" -> Len(reader.pages) - idx + 2
      [] pc = "group" -> Len(groups) - idx + 2
      [] pc = "source" -> Len(paths) - idx + 2
      [] pc = "open" -> (IF call.op = "split" THEN world[call.pdf_path].pages
                                               ELSE Len(groups)) + 2
      [] pc = "validate" ->
            IF call.op = "merge" THEN Len(call.paths_str) + 3
            ELSE IF call.op = "chosen" THEN Len(call.pages_spec) + 4
            ELSE (IF call.pdf_path \in DOMAIN world THEN world[call.pdf_path].pages
                                                     ELSE 0) + 3

\* the call has a next step to take: the guard of one of the actions holds
CanStep ==
    \/ pc = "validate" /\ call.op \in {"split", "chosen", "merge"}
    \/ pc = "open" /\ call.op \in {"split", "chosen"} /\ call.pdf_path \in DOMAIN world
    \/ pc = "page" /\ call.op = "split" /\ idx \in 1..Len(reader.pages)
    \/ pc = "group" /\ call.op = "chosen" /\ idx \in 1..Len(groups)
    \/ pc = "source" /\ call.op = "merge" /\ idx \in 1..Len(paths)
    \/ pc = "finish" /\ call.op \in {"split", "chosen"}
    \/ pc = "write" /\ call.op = "merge"

C20_ReturnsWithOneOutcome ==
    [][/\ CanStep
       /\ StepsLeft' < StepsLeft /\ StepsLeft' >= 0
       /\ pc' # "done" => CanStep'
       /\ pc' = "done" => OneOutcome'
       /\ ~(DoneStatuses' # <<>> /\ Errors' # <<>>)]_vars

\* a call that returned with its one error after it had written a file
C20_Witness ==
    /\ pc = "done"
    /\ DoneStatuses = <<>> /\ Len(Errors) = 1
    /\ Len(Writes) >= 1
    /\ Len(Statuses) >= 2

(***************************************************************************)
(* C21: split_chosen_pages never writes an output file with zero pages:    *)
(* every file it writes, for whatever group it accepted (a group of        *)
(* separators alone such as "," included) and whatever the page count of   *)
(* the input document, holds at least one page.                            *)
(***************************************************************************)
C21_NoZeroPageFile ==
    call.op = "chosen"
        => /\ \A j \in 1..Len(Writes) : Len(Writes[j].pages) >= 1
           /\ \A f \in DOMAIN disk : disk[f].complete => Len(disk[f].pages) >= 1

(***************************************************************************)
(* invoice_spitter.py: the single-window script. Each function reads its   *)
(* arguments from the window's fields and reports through status_var and   *)
(* human_error; here it is the list of what it reports and writes, in      *)
(* order, for given field texts and given faults of the filesystem (does   *)
(* os.makedirs fail, and which write attempt, if any, raises).             *)
(***************************************************************************)
\* input_var.get().strip(), output_var.get().strip(), pages_var.get().strip()
LegacyField(text) == Strip(text)

\* status_var.set(text)
LegacyStatus(text) == Ev("status", text)

\* the except clause at the end of each function
LegacyUnexpected(what) == <<Ev("error", <<what>>), LegacyStatus(<<>>)>>

\* parse_page_selection of the script
legacy_parse_page_selection(sel, total) ==
    ParseLoop(Split(sel, ","), 1, <<>>, total)

\* reader = PdfReader(path) and the decryption attempt: "raise", "locked" or "ok"
LegacyOpen(path) ==
    IF world[path].kind = "corrupt" THEN "raise"
    ELSE IF world[path].kind \in {"enc_zero", "enc_raise"} THEN "locked"
    ELSE "ok"

\* the loop of split_pdf from page idx on, after "done" was reported and written
RECURSIVE split_pdf_loop(_, _, _, _, _, _)
split_pdf_loop(pdf_path, out_dir, total, k, faults, done) ==
    IF k > total
    THEN Append(done, LegacyStatus(<<"Done. Wrote ", total, " files to:\n", out_dir>>))
    ELSE LET base == SplitextRoot(Basename(pdf_path))
             out_name == base \o <<"_", "p">> \o ZeroPad(Dec(k), 3) \o <<".", "p", "d", "f">>
             out_path == JoinPath(out_dir, out_name)
         IN  IF faults.write = k
             THEN done \o LegacyUnexpected("An unexpected error occurred while splitting.")
             ELSE split_pdf_loop(pdf_path, out_dir, total, k + 1, faults,
                     done \o <<Ev("write", [path |-> out_path,
                                            pages |-> <<<<pdf_path, k>>>>]),
                               LegacyStatus(<<"Writing page ", k, "/", total, "...">>)>>)

split_pdf(fields, faults) ==
    LET pdf_path == LegacyField(fields.pdf_path)
        out_dir == LegacyField(fields.out_dir)
        reading == <<LegacyStatus(<<"Reading PDF...">>)>>
    IN  IF pdf_path = <<>>
          THEN <<Ev("error", <<"Please select a PDF file first.">>)>>
        ELSE IF pdf_path \notin DOMAIN world
          THEN <<Ev("error", <<"The selected PDF file does not exist.">>)>>
        ELSE IF out_dir = <<>>
          THEN <<Ev("error", <<"Please choose an output folder.">>)>>
        ELSE IF faults.makedirs
          THEN <<Ev("error", <<"Cannot create the output folder.">>)>>
        ELSE IF LegacyOpen(pdf_path) = "raise"
          THEN reading \o LegacyUnexpected("An unexpected error occurred while splitting.")
        ELSE IF LegacyOpen(pdf_path) = "locked"
          THEN Append(reading, Ev("error",
                  <<"This PDF appears to be password-protected. Decryption failed.">>))
        ELSE IF world[pdf_path].pages = 0
          THEN Append(reading, Ev("error", <<"No pages found in the PDF.">>))
        ELSE split_pdf_loop(pdf_path, out_dir, world[pdf_path].pages, 1, faults, reading)

\* the loop of split_chosen_pages from group idx on
RECURSIVE legacy_chosen_loop(_, _, _, _, _, _)
legacy_chosen_loop(pdf_path, out_dir, groups_, k, faults, done) ==
    IF k > Len(groups_)
    THEN Append(done, LegacyStatus(<<"Done. Wrote ", Len(groups_), " files to:\n", out_dir>>))
    ELSE LET page_numbers == legacy_parse_page_selection(groups_[k], world[pdf_path].pages)
             base == SplitextRoot(Basename(pdf_path))
             out_name == base \o <<"_", "s", "e", "l">> \o ZeroPad(Dec(k), 2)
                              \o <<".", "p", "d", "f">>
             out_path == JoinPath(out_dir, out_name)
             content == [i \in 1..Len(page_numbers.pages) |->
                            <<pdf_path, page_numbers.pages[i]>>]
         IN  IF ~page_numbers.ok
             THEN Append(done, Ev("error", <<page_numbers.msg, page_numbers.part>>))
             ELSE IF faults.write = k
             THEN done \o LegacyUnexpected("An unexpected error occurred while splitting.")
             ELSE legacy_chosen_loop(pdf_path, out_dir, groups_, k + 1, faults,
                     done \o <<Ev("write", [path |-> out_path, pages |-> content]),
                               LegacyStatus(<<"Writing file ", k, "/", Len(groups_), "...">>)>>)

legacy_split_chosen_pages(fields, faults) ==
    LET pdf_path == LegacyField(fields.pdf_path)
        out_dir == LegacyField(fields.out_dir)
        pages_spec == LegacyField(fields.pages_spec)
        pieces == Split(pages_spec, ";")
        groups_ == SelectSeq([i \in 1..Len(pieces) |-> Strip(pieces[i])],
                             LAMBDA g : g # <<>>)
        reading == <<LegacyStatus(<<"Reading PDF...">>)>>
    IN  IF pdf_path = <<>>
          THEN <<Ev("error", <<"Please select a PDF file first.">>)>>
        ELSE IF pdf_path \notin DOMAIN world
          THEN <<Ev("error", <<"The selected PDF file does not exist.">>)>>
        ELSE IF out_dir = <<>>
          THEN <<Ev("error", <<"Please choose an output folder.">>)>>
        ELSE IF pages_spec = <<>> \/ groups_ = <<>>
          THEN <<Ev("error", <<"Please specify page selections.">>)>>
        ELSE IF faults.makedirs
          THEN <<Ev("error", <<"Cannot create the output folder.">>)>>
        ELSE IF LegacyOpen(pdf_path) = "raise"
          THEN reading \o LegacyUnexpected("An unexpected error occurred while splitting.")
        ELSE IF LegacyOpen(pdf_path) = "locked"
          THEN Append(reading, Ev("error",
                  <<"This PDF appears to be password-protected. Decryption failed.">>))
        ELSE legacy_chosen_loop(pdf_path, out_dir, groups_, 1, faults, reading)

\* the loop of merge_pdfs from source k on, with the pages added so far
RECURSIVE merge_pdfs_loop(_, _, _, _, _, _)
merge_pdfs_loop(sources, out_path, k, added, faults, done) ==
    IF k > Len(sources)
    THEN IF faults.write = 1
         THEN done \o LegacyUnexpected("An unexpected error occurred while merging.")
         ELSE done \o <<Ev("write", [path |-> out_path, pages |-> added]),
                        LegacyStatus(<<"Done. Wrote merged PDF to:\n", out_path>>)>>
    ELSE LET path == sources[k]
         IN  IF path \notin DOMAIN world
             THEN Append(done, Ev("error", <<"File not found: ", path>>))
             ELSE IF LegacyOpen(path) = "raise"
             THEN done \o LegacyUnexpected("An unexpected error occurred while merging.")
             ELSE IF LegacyOpen(path) = "locked"
             THEN Append(done, Ev("error",
                     <<"One of the PDFs is password-protected. Decryption failed.">>))
             ELSE merge_pdfs_loop(sources, out_path, k + 1,
                     added \o [i \in 1..world[path].pages |-> <<path, i>>], faults,
                     Append(done, LegacyStatus(
                         <<"Processed ", k, "/", Len(sources), " files...">>)))

merge_pdfs(fields, faults) ==
    LET paths_str == LegacyField(fields.paths_str)
        out_path == LegacyField(fields.out_path)
        pieces == Split(paths_str, ";")
        sources == SelectSeq([i \in 1..Len(pieces) |-> Strip(pieces[i])],
                             LAMBDA x : x # <<>>)
    IN  IF paths_str = <<>>
          THEN <<Ev("error", <<"Please select PDF files to merge.">>)>>
        ELSE IF out_path = <<>>
          THEN <<Ev("error", <<"Please choose an output file.">>)>>
        ELSE merge_pdfs_loop(sources, out_path, 1, <<>>, faults, <<>>)

\* perform_action: the function of the mode the window is in
perform_action(fields, faults) ==
    IF fields.op = "split" THEN split_pdf(fields, faults)
    ELSE IF fields.op = "chosen" THEN legacy_split_chosen_pages(fields, faults)
    ELSE merge_pdfs(fields, faults)

(***************************************************************************)
(* The engines called on field texts as they may be typed, blanks around   *)
(* them included, to be compared with the script on the same texts.        *)
(***************************************************************************)
MaxFieldItems == 2

Padded(text) == <<" ">> \o text

TypedCalls ==
    {[NoCall EXCEPT !.op = "split", !.pdf_path = i, !.out_dir = o] :
        i \in {<<>>, PathA, Padded(PathA), PathM}, o \in {<<>>, OutDir, Padded(OutDir)}}
    \cup
    {[NoCall EXCEPT !.op = "chosen", !.pdf_path = i, !.out_dir = o,
                    !.pages_spec = JoinSemi(g)] :
        i \in {<<>>, PathA, Padded(PathA)}, o \in {<<>>, OutDir},
        g \in Lists(GroupChoices, MaxFieldItems)}
    \cup
    {[NoCall EXCEPT !.op = "merge", !.paths_str = p, !.out_path = o] :
        p \in {JoinSemi(e) : e \in Lists(EntryChoices, MaxFieldItems)} \cup {<<" ">>},
        o \in {<<>>, OutFile, Padded(OutFile)}}

\* the call with every field as the script reads it
Stripped(c) ==
    [c EXCEPT !.pdf_path = Strip(c.pdf_path), !.out_dir = Strip(c.out_dir),
              !.pages_spec = Strip(c.pages_spec), !.paths_str = Strip(c.paths_str),
              !.out_path = Strip(c.out_path)]

InitLegacy ==
    /\ selection = <<>> /\ total_pages = 0 /\ parsed = Pending
    /\ call \in TypedCalls
    /\ LET opened == Opens(call) \cup Opens(Stripped(call))
       IN  \E a \in (IF PathA \in opened THEN DocStates ELSE {PlainEmpty}) :
           \E b \in (IF PathB \in opened THEN DocStates ELSE {PlainEmpty}) :
              world = (PathA :> a) @@ (PathB :> b)
    /\ pc = "validate"
    /\ reader = NoReader
    /\ groups = <<>>
    /\ paths = <<>>
    /\ idx = 0
    /\ writer = <<>>
    /\ disk = <<>>
    /\ dirs = {}
    /\ trace = <<>>
    /\ queue = <<>>
    /\ prev = NoPrev
    /\ clicks = 0

SpecLegacy == InitLegacy /\ [][Next]_vars

(***************************************************************************)
(* C22, as stated: for the same input path(s), output path and selection   *)
(* string, the function of the script and the method of the engines write  *)
(* the same files with the same pages in the same order, report the same   *)
(* error or none, and set the same status texts in the same order.         *)
(***************************************************************************)
\* what the claim compares: the files written, the errors and the status texts
Observable(t) == SelectSeq(t, LAMBDA ev : ev.e \in {"write", "error", "status"})

\* the faults of the filesystem a run of the engines met
FaultsOf(t) ==
    [makedirs |-> \E i \in 1..Len(t) :
                     t[i].e = "error" /\ t[i].x = <<"Cannot create the output folder.">>,
     write |-> IF \E i \in 1..Len(t) : t[i].e = "raise" /\ t[i].x = "write"
               THEN Len(WritesOf(t)) + 1 ELSE 0]

=============================================================================
